---- MODULE Spec2Model ----
(***************************************************************************)
(* A state-machine model of the telemetrydeck-go client library.          *)
(*                                                                         *)
(* Two revisions of the package are present in the source tree:            *)
(*   src/telemetrydeck.go   - asynchronous dispatch, optional logger       *)
(*                            (specification Spec);                        *)
(*   src/unnamed/part_000   - synchronous dispatch, no logger option       *)
(*                            (specification Spec000).                     *)
(* Both are modelled over the same variables; SpecNew (construction),      *)
(* SpecUse (a client reconfigured while in use), SpecLive (fair            *)
(* scheduling of the goroutines), SpecGen (generateUserId)                 *)
(* and SpecHash (hashUserId) exercise parts of telemetrydeck.go over       *)
(* wider inputs.  Strings are TLA+ strings,                                *)
(* maps are records [isNil, kv], SHA-256 is a symbolic injective digest    *)
(* except in SpecHash, which computes it on bytes.                         *)
(***************************************************************************)
EXTENDS Integers, Sequences, FiniteSets, TLC

VARIABLES
    env,     \* the machine/process environment generateUserId inspects
    client,  \* the *Client under construction / returned by NewClient
    nc,      \* the NewClient call: its frame (options, loop index) and results
    caller,  \* the goroutine calling SendSignal: position and pending return
    calls,   \* one record per SendSignal call, with its HTTP exchange
    rets     \* direct calls of generateUserId, hashUserId and the accessors:
             \* what they were given and what they returned

vars == <<env, client, nc, caller, calls, rets>>

(***************************************************************************)
(* Bounds of the model.                                                    *)
(***************************************************************************)
MaxOptions == 2   \* length of the option list handed to NewClient
MaxSends == 2     \* number of SendSignal calls made on the client
MaxIfas == 2      \* number of network interfaces of the machine
MaxCalls == 2     \* number of direct calls of generateUserId
MaxHashLen == 2   \* length of the user IDs and salts hashUserId is called with
MaxLate == 1      \* number of options applied to a client after NewClient returned
MaxUseSends == 1  \* number of SendSignal calls on a client that is also reconfigured

(***************************************************************************)
(* Package constants and variables.                                        *)
(***************************************************************************)
endpoint == "https://nom.telemetrydeck.com/v2/"
version == "telemetrydeck-go/0.0.1"
ErrNoAppID == "no app ID specified"
ErrNoSignalType == "no signal type specified"

\* error values produced by the libraries the package calls
NoErr == "nil"
ErrMarshal == "json: unsupported type"
ErrNewRequest == "parse: missing protocol scheme"
ErrTransport == "dial tcp: connection refused"

\* the three keys SendSignal injects
KeyOS == "TelemetryDeck.Device.operatingSystem"
KeyArch == "TelemetryDeck.Device.architecture"
KeySDK == "TelemetryDeck.SDK.nameAndVersion"
StandardKeys == {KeyOS, KeyArch, KeySDK}

(***************************************************************************)
(* Input domains.                                                          *)
(***************************************************************************)
AppIDs == {"", "app"}
UserIDs == {"a", "ab"}
Salts == {"b", ""}
TestEndpoint == "http://127.0.0.1:8080"
MalformedEndpoint == "://bad"
Endpoints == {TestEndpoint, MalformedEndpoint}
SessionIDs == {"sess"}
FreshUUIDs == {"uuid-1"}
NilLogger == "nil"
Loggers == {"L"}
SignalTypes == {"", "sig"}
Unserializable == "chan"     \* a Go value json.Marshal rejects (a channel)

\* Go maps: the nil map, or a map with the given key/value pairs
NilMap == [isNil |-> TRUE, kv |-> <<>>]
EmptyMap == [isNil |-> FALSE, kv |-> <<>>]
MapOf(f) == [isNil |-> FALSE, kv |-> f]
Payloads ==
    { NilMap,
      MapOf([k \in {"command", KeyOS} |-> IF k = "command" THEN "create" ELSE "mine"]),
      MapOf([k \in {"command"} |-> Unserializable]) }

LinuxEnv ==
    [ goos |-> "linux", goarch |-> "amd64",
      hostnameErr |-> FALSE, hostname |-> "host",
      ifErr |-> FALSE, ifas |-> <<"02:bb", "", "02:aa">>,
      uid |-> 1000, gid |-> 100,
      USER |-> "me", USERNAME |-> "", PCTUSERNAME |-> "" ]
BareEnv ==
    [ goos |-> "windows", goarch |-> "386",
      hostnameErr |-> TRUE, hostname |-> "",
      ifErr |-> TRUE, ifas |-> <<>>,
      uid |-> -1, gid |-> -1,
      USER |-> "", USERNAME |-> "", PCTUSERNAME |-> "" ]
Envs == {LinuxEnv, BareEnv}

\* the hardware address strings of the interfaces ("" for an interface
\* without one, such as the loopback), in every enumeration order
Addrs == {"02:aa", "02:bb", ""}
IfaLists == UNION {[1..n -> Addrs] : n \in 0..MaxIfas}

\* every environment of the model: each lookup of generateUserId succeeding
\* or failing on its own
AllEnvs ==
    { [ goos |-> pf[1], goarch |-> pf[2],
        hostnameErr |-> h[1], hostname |-> h[2],
        ifErr |-> n[1], ifas |-> n[2],
        uid |-> ug[1], gid |-> ug[2],
        USER |-> u, USERNAME |-> un, PCTUSERNAME |-> "" ] :
      pf \in {<<"linux", "amd64">>, <<"windows", "386">>},
      h \in {<<FALSE, "host">>, <<TRUE, "">>},
      n \in {<<TRUE, <<>>>>} \cup {<<FALSE, l>> : l \in IfaLists},
      ug \in {<<1000, 100>>, <<0, 0>>, <<-1, -1>>},
      u \in {"", "me"}, un \in {"", "Me"} }

(***************************************************************************)
(* Library functions the package calls.                                    *)
(***************************************************************************)
\* crypto/sha256 followed by fmt.Sprintf("%x"): a symbolic digest, equal on
\* equal inputs and different on different inputs
Sha256Hex(s) == "sha256hex(" \o s \o ")"

Digit(d) == <<"0", "1", "2", "3", "4", "5", "6", "7", "8", "9">>[d + 1]

RECURSIVE Itoa(_)
\* fmt.Sprintf("%d", n)
Itoa(n) ==
    IF n < 0 THEN "-" \o Itoa(-n)
    ELSE IF n < 10 THEN Digit(n)
    ELSE Itoa(n \div 10) \o Digit(n % 10)

\* the hardware addresses of the model, in byte-wise lexicographic order
MACOrder == <<"02:aa", "02:bb">>
MACRank(m) == CHOOSE i \in 1..Len(MACOrder) : MACOrder[i] = m

RECURSIVE InsertSorted(_, _)
InsertSorted(s, m) ==
    IF s = <<>> THEN <<m>>
    ELSE IF MACRank(m) <= MACRank(Head(s)) THEN <<m>> \o s
    ELSE <<Head(s)>> \o InsertSorted(Tail(s), m)

RECURSIVE SortStrings(_)
\* sort.Strings
SortStrings(s) ==
    IF s = <<>> THEN <<>> ELSE InsertSorted(SortStrings(Tail(s)), Head(s))

RECURSIVE Join(_, _)
\* strings.Join
Join(s, sep) ==
    IF s = <<>> THEN ""
    ELSE IF Len(s) = 1 THEN s[1]
    ELSE s[1] \o sep \o Join(Tail(s), sep)

\* the non-empty HardwareAddr strings, in enumeration order
NonEmptyAddrs(ifas) == SelectSeq(ifas, LAMBDA a : a # "")

(***************************************************************************)
(* crypto/sha256 on bytes (FIPS 180-4) and the "%x" verb.  TLA+ strings    *)
(* have no characters to read, so where the digest itself matters the      *)
(* strings are sequences of bytes.  32-bit words are pairs                 *)
(* <<high 16 bits, low 16 bits>>.                                          *)
(***************************************************************************)
Half == 2 ^ 16
Pow2(n) == 2 ^ n

RECURSIVE XorBits(_, _)
XorBits(a, b) ==
    IF a = 0 THEN b ELSE IF b = 0 THEN a
    ELSE ((a + b) % 2) + 2 * XorBits(a \div 2, b \div 2)

RECURSIVE AndBits(_, _)
AndBits(a, b) ==
    IF a = 0 \/ b = 0 THEN 0
    ELSE ((a % 2) * (b % 2)) + 2 * AndBits(a \div 2, b \div 2)

\* the two operations on 4-bit digits, tabulated
XorTable == [a \in 0..15 |-> [b \in 0..15 |-> XorBits(a, b)]]
AndTable == [a \in 0..15 |-> [b \in 0..15 |-> AndBits(a, b)]]

Xor16(a, b) ==
    XorTable[a \div 4096][b \div 4096] * 4096
        + XorTable[(a \div 256) % 16][(b \div 256) % 16] * 256
        + XorTable[(a \div 16) % 16][(b \div 16) % 16] * 16
        + XorTable[a % 16][b % 16]
And16(a, b) ==
    AndTable[a \div 4096][b \div 4096] * 4096
        + AndTable[(a \div 256) % 16][(b \div 256) % 16] * 256
        + AndTable[(a \div 16) % 16][(b \div 16) % 16] * 16
        + AndTable[a % 16][b % 16]

Xor(x, y) == <<Xor16(x[1], y[1]), Xor16(x[2], y[2])>>
And(x, y) == <<And16(x[1], y[1]), And16(x[2], y[2])>>
Not(x) == <<Half - 1 - x[1], Half - 1 - x[2]>>
Add(x, y) ==
    LET lo == x[2] + y[2]
    IN  <<(x[1] + y[1] + lo \div Half) % Half, lo % Half>>

RECURSIVE Rotr(_, _)
Rotr(x, n) ==
    IF n >= 16 THEN Rotr(<<x[2], x[1]>>, n - 16)
    ELSE IF n = 0 THEN x
    ELSE <<(x[1] \div Pow2(n)) + (x[2] % Pow2(n)) * Pow2(16 - n),
           (x[2] \div Pow2(n)) + (x[1] % Pow2(n)) * Pow2(16 - n)>>
Shr(x, n) ==
    IF n >= 16 THEN <<0, x[1] \div Pow2(n - 16)>>
    ELSE <<x[1] \div Pow2(n), (x[2] \div Pow2(n)) + (x[1] % Pow2(n)) * Pow2(16 - n)>>

BigSigma0(x) == Xor(Xor(Rotr(x, 2), Rotr(x, 13)), Rotr(x, 22))
BigSigma1(x) == Xor(Xor(Rotr(x, 6), Rotr(x, 11)), Rotr(x, 25))
SmallSigma0(x) == Xor(Xor(Rotr(x, 7), Rotr(x, 18)), Shr(x, 3))
SmallSigma1(x) == Xor(Xor(Rotr(x, 17), Rotr(x, 19)), Shr(x, 10))
Ch(x, y, z) == Xor(And(x, y), And(Not(x), z))
Maj(x, y, z) == Xor(Xor(And(x, y), And(x, z)), And(y, z))

ShaK == <<
    <<17034, 12184>>, <<28983, 17553>>, <<46528, 64463>>, <<59829, 56229>>,
    <<14678, 49755>>, <<23025, 4593>>, <<37439, 33444>>, <<43804, 24277>>,
    <<55303, 43672>>, <<4739, 23297>>, <<9265, 34238>>, <<21772, 32195>>,
    <<29374, 23924>>, <<32990, 45566>>, <<39900, 1703>>, <<49563, 61812>>,
    <<58523, 27073>>, <<61374, 18310>>, <<4033, 40390>>, <<9228, 41420>>,
    <<11753, 11375>>, <<19060, 33962>>, <<23728, 43484>>, <<30457, 35034>>,
    <<38974, 20818>>, <<43057, 50797>>, <<45059, 10184>>, <<48985, 32711>>,
    <<50912, 3059>>, <<54695, 37191>>, <<1738, 25425>>, <<5161, 10599>>,
    <<10167, 2693>>, <<11803, 8504>>, <<19756, 28156>>, <<21304, 3347>>,
    <<25866, 29524>>, <<30314, 2747>>, <<33218, 51502>>, <<37490, 11397>>,
    <<41663, 59553>>, <<43034, 26187>>, <<49739, 35696>>, <<51052, 20899>>,
    <<53650, 59417>>, <<54937, 1572>>, <<62478, 13701>>, <<4202, 41072>>,
    <<6564, 49430>>, <<7735, 27656>>, <<10056, 30540>>, <<13488, 48309>>,
    <<14620, 3251>>, <<20184, 43594>>, <<23452, 51791>>, <<26670, 28659>>,
    <<29839, 33518>>, <<30885, 25455>>, <<33992, 30740>>, <<36039, 520>>,
    <<37054, 65530>>, <<42064, 27883>>, <<48889, 41975>>, <<50801, 30962>> >>
ShaH0 == <<
    <<27145, 58983>>, <<47975, 44677>>, <<15470, 62322>>, <<42319, 62778>>,
    <<20750, 21119>>, <<39685, 26764>>, <<8067, 55723>>, <<23520, 52505>> >>

\* the message followed by 0x80, zeros up to 56 mod 64, and its length in
\* bits as eight big-endian bytes
RECURSIVE Zeros(_)
Zeros(n) == IF n = 0 THEN <<>> ELSE <<0>> \o Zeros(n - 1)
Pad(msg) ==
    LET n == Len(msg)
        z == (119 - (n % 64)) % 64
        bits == n * 8
    IN  msg \o <<128>> \o Zeros(z) \o Zeros(4)
            \o <<(bits \div 16777216) % 256, (bits \div 65536) % 256,
                 (bits \div 256) % 256, bits % 256>>

\* the sixteen words of block b (from 0) of the padded message
BlockWords(p, b) ==
    [t \in 1..16 |->
        LET o == 64 * b + 4 * (t - 1)
        IN  <<p[o + 1] * 256 + p[o + 2], p[o + 3] * 256 + p[o + 4]>>]

RECURSIVE Schedule(_)
\* the message schedule, extended from 16 to 64 words
Schedule(w) ==
    IF Len(w) = 64 THEN w
    ELSE LET t == Len(w) + 1
             next == Add(Add(SmallSigma1(w[t - 2]), w[t - 7]),
                         Add(SmallSigma0(w[t - 15]), w[t - 16]))
         IN  IF next = next THEN Schedule(Append(w, next)) ELSE w

RECURSIVE Rounds(_, _, _)
\* rounds t..64 on the working variables v = <<a, b, c, d, e, f, g, h>>
Rounds(v, w, t) ==
    IF t > 64 THEN v
    ELSE LET t1 == Add(Add(Add(v[8], BigSigma1(v[5])),
                           Add(Ch(v[5], v[6], v[7]), ShaK[t])), w[t])
             t2 == Add(BigSigma0(v[1]), Maj(v[1], v[2], v[3]))
             next == <<Add(t1, t2), v[1], v[2], v[3], Add(v[4], t1), v[5], v[6], v[7]>>
         IN  IF next = next THEN Rounds(next, w, t + 1) ELSE v

Compress(h, w) ==
    LET v == Rounds(h, Schedule(w), 1)
    IN  [i \in 1..8 |-> Add(h[i], v[i])]

RECURSIVE Blocks(_, _, _)
Blocks(h, p, b) ==
    IF 64 * b >= Len(p) THEN h
    ELSE Blocks(Compress(h, BlockWords(p, b)), p, b + 1)

\* sha256: the digest of the bytes, as eight words
Sha256(msg) == Blocks(ShaH0, Pad(msg), 0)

HexDigit(d) ==
    <<"0", "1", "2", "3", "4", "5", "6", "7", "8", "9", "a", "b", "c", "d", "e", "f">>[d + 1]
Hex16(x) ==
    HexDigit(x \div 4096) \o HexDigit((x \div 256) % 16)
        \o HexDigit((x \div 16) % 16) \o HexDigit(x % 16)
RECURSIVE HexWords(_)
\* fmt.Sprintf("%x", bs)
HexWords(ws) ==
    IF ws = <<>> THEN "" ELSE Hex16(Head(ws)[1]) \o Hex16(Head(ws)[2]) \o HexWords(Tail(ws))

(***************************************************************************)
(* Identity.                                                               *)
(***************************************************************************)
hashUserId(id, salt) == Sha256Hex(id \o salt)

hashUserIdBytes_SaltFirst(id, salt) == HexWords(Sha256(salt \o id))

\* hashUserId on the bytes of its arguments, the digest computed
hashUserIdBytes(id, salt) == HexWords(Sha256(id \o salt))

generateUserIdParts_Unsorted(e) ==
    <<e.goos, e.goarch>>
        \o (IF e.hostnameErr THEN <<>> ELSE <<e.hostname>>)
        \o (IF e.ifErr THEN <<>> ELSE <<Join(NonEmptyAddrs(e.ifas), " ")>>)
        \o <<Itoa(e.uid), Itoa(e.gid)>>
        \o <<e.USER, e.USERNAME, e.PCTUSERNAME>>

\* the pieces generateUserId appends, each one after a "|": nothing is
\* appended for a failed os.Hostname or net.Interfaces
generateUserIdParts(e) ==
    <<e.goos, e.goarch>>
        \o (IF e.hostnameErr THEN <<>> ELSE <<e.hostname>>)
        \o (IF e.ifErr THEN <<>>
            ELSE <<Join(SortStrings(NonEmptyAddrs(e.ifas)), " ")>>)
        \o <<Itoa(e.uid), Itoa(e.gid)>>
        \o <<e.USER, e.USERNAME, e.PCTUSERNAME>>

RECURSIVE Delimited(_)
\* id += "|" + part, for every part in turn
Delimited(parts) ==
    IF parts = <<>> THEN ""
    ELSE Delimited(SubSeq(parts, 1, Len(parts) - 1)) \o "|" \o parts[Len(parts)]

generateUserId(e) == Delimited(generateUserIdParts(e))

(***************************************************************************)
(* The Client and its options.                                             *)
(***************************************************************************)
\* the state before NewClient has built a client, and what it returns on error
NoClient ==
    [ isNil |-> TRUE, logger |-> NilLogger, appID |-> "", endpoint |-> "",
      hashSalt |-> "", userID |-> "", userIDHash |-> "", sessionID |-> "",
      testMode |-> FALSE ]

\* the struct literal of NewClient in telemetrydeck.go
DefaultClient(appID, e, uuid) ==
    LET defaultUid == generateUserId(e)
    IN  [ isNil |-> FALSE, logger |-> NilLogger, appID |-> appID,
          endpoint |-> endpoint, hashSalt |-> "", userID |-> defaultUid,
          userIDHash |-> hashUserId(defaultUid, ""), sessionID |-> uuid,
          testMode |-> FALSE ]

\* the struct literal of NewClient in part_000: userIDHash keeps its zero value
DefaultClient000(appID, e, uuid) ==
    [ isNil |-> FALSE, logger |-> NilLogger, appID |-> appID,
      endpoint |-> endpoint, hashSalt |-> "", userID |-> generateUserId(e),
      userIDHash |-> "", sessionID |-> uuid, testMode |-> FALSE ]

WithEndpoint(ep, c) == [c EXCEPT !.endpoint = ep]

WithLogger(logger, c) == [c EXCEPT !.logger = logger]

WithHashSalt(salt, c) ==
    LET c1 == [c EXCEPT !.hashSalt = salt]
    IN  [c1 EXCEPT !.userIDHash = hashUserId(c1.userID, c1.hashSalt)]

WithUserID(userID, c) ==
    LET c1 == [c EXCEPT !.userID = userID]
    IN  [c1 EXCEPT !.userIDHash = hashUserId(userID, c1.hashSalt)]

WithSessionID(sessionID, c) == [c EXCEPT !.sessionID = sessionID]

WithTestMode(c) == [c EXCEPT !.testMode = TRUE]

\* option values: the closures returned by the With...() functions
Opt(kind, arg) == [kind |-> kind, arg |-> arg]
Options ==
    {Opt("WithEndpoint", ep) : ep \in Endpoints}
    \cup {Opt("WithLogger", l) : l \in Loggers}
    \cup {Opt("WithHashSalt", s) : s \in Salts}
    \cup {Opt("WithUserID", u) : u \in UserIDs}
    \cup {Opt("WithSessionID", s) : s \in SessionIDs}
    \cup {Opt("WithTestMode", "")}
\* part_000 has no WithLogger
Options000 == {o \in Options : o.kind # "WithLogger"}

\* o(client): the call of one option closure
ApplyOption(o, c) ==
    CASE o.kind = "WithEndpoint" -> WithEndpoint(o.arg, c)
      [] o.kind = "WithLogger" -> WithLogger(o.arg, c)
      [] o.kind = "WithHashSalt" -> WithHashSalt(o.arg, c)
      [] o.kind = "WithUserID" -> WithUserID(o.arg, c)
      [] o.kind = "WithSessionID" -> WithSessionID(o.arg, c)
      [] o.kind = "WithTestMode" -> WithTestMode(c)

RECURSIVE SeqsUpTo(_, _)
\* the sequences over S of length at most n
SeqsUpTo(S, n) ==
    IF n = 0 THEN {<<>>}
    ELSE LET shorter == SeqsUpTo(S, n - 1)
         IN  shorter \cup {Append(s, x) : s \in shorter, x \in S}

(***************************************************************************)
(* SendSignal: the synchronous part.                                       *)
(***************************************************************************)
StatusThreshold == 400      \* response.StatusCode >= 400
Statuses == {StatusThreshold - 1, StatusThreshold}

\* map assignment m[k] = v
MapSet(m, k, v) ==
    [m EXCEPT !.kv = [x \in (DOMAIN m.kv) \cup {k} |-> IF x = k THEN v ELSE m.kv[x]]]

\* payload == nil replaced by make(map), then the three assignments
InjectStandardFields_KeepCaller(payload, e) ==
    LET p0 == IF payload.isNil THEN EmptyMap ELSE payload
        set(m, k, v) == IF k \in DOMAIN m.kv THEN m ELSE MapSet(m, k, v)
    IN  set(set(set(p0, KeyOS, e.goos), KeyArch, e.goarch), KeySDK, version)

InjectStandardFields(payload, e) ==
    LET p0 == IF payload.isNil THEN EmptyMap ELSE payload
        p1 == MapSet(p0, KeyOS, e.goos)
        p2 == MapSet(p1, KeyArch, e.goarch)
    IN  MapSet(p2, KeySDK, version)

\* the SignalBody literal
BuildSignal(c, signalType, payload) ==
    [ AppID |-> c.appID, ClientUser |-> c.userIDHash, SessionID |-> c.sessionID,
      IsTestMode |-> c.testMode, Type |-> signalType, Payload |-> payload ]

\* encoding/json: a Go string becomes a quoted JSON string, a bool a literal,
\* a map an object (null for the nil map), a struct an object named by its tags
JSONString(s) == "\"" \o s \o "\""
JSONBool(b) == IF b THEN "true" ELSE "false"
JSONMap(m) ==
    [ null |-> m.isNil,
      members |-> [k \in DOMAIN m.kv |-> JSONString(m.kv[k])] ]
JSONSignal(sb) ==
    [ appID |-> JSONString(sb.AppID), clientUser |-> JSONString(sb.ClientUser),
      sessionID |-> JSONString(sb.SessionID), isTestMode |-> JSONBool(sb.IsTestMode),
      type |-> JSONString(sb.Type), payload |-> JSONMap(sb.Payload) ]
Marshalable(sb) == \A k \in DOMAIN sb.Payload.kv : sb.Payload.kv[k] # Unserializable

\* json.Marshal(signals): the bytes, or an error
Marshal(signals) ==
    IF \A i \in 1..Len(signals) : Marshalable(signals[i])
    THEN [err |-> NoErr, bytes |-> [i \in 1..Len(signals) |-> JSONSignal(signals[i])]]
    ELSE [err |-> ErrMarshal, bytes |-> <<>>]

NoRequest == [isNil |-> TRUE, method |-> "", url |-> "", contentType |-> "", body |-> <<>>]

\* http.NewRequest: url.Parse rejects a malformed URL
NewRequest(method, url, body) ==
    IF url = MalformedEndpoint
    THEN [err |-> ErrNewRequest, request |-> NoRequest]
    ELSE [err |-> NoErr,
          request |-> [isNil |-> FALSE, method |-> method, url |-> url,
                       contentType |-> "", body |-> body]]

HeaderSet(request, value) == [request EXCEPT !.contentType = value]

NilResponse == [isNil |-> TRUE, status |-> 0, text |-> "", closed |-> FALSE, drained |-> FALSE]
Response(status) ==
    [isNil |-> FALSE, status |-> status, text |-> "reply", closed |-> FALSE, drained |-> FALSE]

\* the goroutine of one call (pc "none": not spawned)
\* wire: the request the transport was handed
NoTask == [pc |-> "none", attempts |-> 0, err |-> NoErr, response |-> NilResponse,
           lines |-> <<>>, panicked |-> FALSE, wire |-> NoRequest]
SpawnedTask == [NoTask EXCEPT !.pc = "do"]

\* the record of one SendSignal call
Call(signalType, payload, callerMap, ret, request, body, task) ==
    [ signalType |-> signalType, payload |-> payload, callerMap |-> callerMap,
      ret |-> ret, returned |-> FALSE, request |-> request, body |-> body,
      task |-> task ]

SendSignalBuild_SpawnOnError(c, e, signalType, payload) ==
    LET p == InjectStandardFields(payload, e)
        cm == IF payload.isNil THEN payload ELSE p
        m == Marshal(<<BuildSignal(c, signalType, p)>>)
        r == NewRequest("POST", c.endpoint, m.bytes)
    IN  Call(signalType, payload, cm,
             IF m.err # NoErr THEN m.err ELSE r.err,
             HeaderSet(r.request, "application/json; charset=utf-8"),
             m.bytes, SpawnedTask)

SendSignalBuild_CopyPayload(c, e, signalType, payload) ==
    LET p == InjectStandardFields(payload, e)
        m == Marshal(<<BuildSignal(c, signalType, p)>>)
        r == NewRequest("POST", c.endpoint, m.bytes)
    IN  IF m.err # NoErr
        THEN Call(signalType, payload, payload, m.err, NoRequest, <<>>, NoTask)
        ELSE IF r.err # NoErr
        THEN Call(signalType, payload, payload, r.err, NoRequest, m.bytes, NoTask)
        ELSE Call(signalType, payload, payload, NoErr,
                  HeaderSet(r.request, "application/json; charset=utf-8"),
                  m.bytes, SpawnedTask)

\* SendSignal after the signal type check, up to and including the go
\* statement: the call's record
SendSignalBuild(c, e, signalType, payload) ==
    LET p == InjectStandardFields(payload, e)
        \* the caller's own map: written in place unless it was nil
        cm == IF payload.isNil THEN payload ELSE p
        signal == BuildSignal(c, signalType, p)
        signals == <<signal>>
        m == Marshal(signals)
        r == NewRequest("POST", c.endpoint, m.bytes)
    IN  IF m.err # NoErr
        THEN Call(signalType, payload, cm, m.err, NoRequest, <<>>, NoTask)
        ELSE IF r.err # NoErr
        THEN Call(signalType, payload, cm, r.err, NoRequest, m.bytes, NoTask)
        ELSE Call(signalType, payload, cm, NoErr,
                  HeaderSet(r.request, "application/json; charset=utf-8"),
                  m.bytes, SpawnedTask)

SendSignalSync_NoTypeCheck(c, e, signalType, payload) ==
    SendSignalBuild(c, e, signalType, payload)

\* SendSignal up to and including the go statement
SendSignalSync(c, e, signalType, payload) ==
    IF signalType = ""
    THEN Call(signalType, payload, payload, ErrNoSignalType, NoRequest, <<>>, NoTask)
    ELSE SendSignalBuild(c, e, signalType, payload)

(***************************************************************************)
(* The logger.                                                             *)
(***************************************************************************)
Line(fmt, str, bytes) == [fmt |-> fmt, str |-> str, bytes |-> bytes]
ErrorLine(err) == Line("error submitting HTTP request: %s", err, <<>>)
WarningLine ==
    Line("warning - telemetrydeck.Client.SendSignal resulted in no response", "", <<>>)
StatusLine(status) == Line("response status: %d", Itoa(status), <<>>)
RequestLine(body) == Line("request body: %s", "", body)
ResponseLine(text) == Line("response body: %s", text, <<>>)

\* logger.Printf on the task t: a nil *log.Logger is dereferenced
Printf(logger, t, line) ==
    IF t.panicked THEN t
    ELSE IF logger = NilLogger THEN [t EXCEPT !.panicked = TRUE]
    ELSE [t EXCEPT !.lines = Append(@, line)]

(***************************************************************************)
(* The state machine of telemetrydeck.go.                                  *)
(***************************************************************************)
\* every option list of length at most MaxOptions
OptionLists == SeqsUpTo(Options, MaxOptions)

\* the option lists the dispatch pipeline is exercised under
Setups ==
    { <<>>,
      <<Opt("WithLogger", "L")>>,
      <<Opt("WithTestMode", "")>>,
      <<Opt("WithTestMode", ""), Opt("WithEndpoint", TestEndpoint),
        Opt("WithUserID", "a"), Opt("WithHashSalt", "b"),
        Opt("WithSessionID", "sess"), Opt("WithLogger", "L")>>,
      <<Opt("WithEndpoint", MalformedEndpoint)>> }

\* late: the options applied to the client after NewClient returned it
IdleNC == [pc |-> "start", appID |-> "", options |-> <<>>, i |-> 0, applied |-> 0,
           retNil |-> TRUE, err |-> NoErr, late |-> 0]

Init ==
    /\ env \in Envs
    /\ client = NoClient
    /\ nc = IdleNC
    /\ caller = "idle"
    /\ calls = <<>>
    /\ rets = <<>>

\* NewClient, entry: the appID check and the defaults
NewClient_NoCheck(appID, options) ==
    /\ nc.pc = "start"
    /\ \E uuid \in FreshUUIDs : client' = DefaultClient(appID, env, uuid)
    /\ nc' = [nc EXCEPT !.pc = "options", !.appID = appID,
                        !.options = options, !.i = 1]
    /\ UNCHANGED <<rets, env, caller, calls>>

NewClient(appID, options) ==
    /\ nc.pc = "start"
    /\ IF appID = ""
       THEN /\ nc' = [nc EXCEPT !.pc = "returned", !.appID = appID,
                                !.retNil = TRUE, !.err = ErrNoAppID]
            /\ UNCHANGED client
       ELSE /\ \E uuid \in FreshUUIDs : client' = DefaultClient(appID, env, uuid)
            /\ nc' = [nc EXCEPT !.pc = "options", !.appID = appID,
                                !.options = options, !.i = 1]
    /\ UNCHANGED <<rets, env, caller, calls>>

OptionStep_RightToLeft ==
    /\ nc.pc = "options"
    /\ nc.i <= Len(nc.options)
    /\ client' = ApplyOption(nc.options[Len(nc.options) + 1 - nc.i], client)
    /\ nc' = [nc EXCEPT !.i = @ + 1, !.applied = @ + 1]
    /\ UNCHANGED <<rets, env, caller, calls>>

\* one iteration of "for _, o := range options { o(client) }"
OptionStep ==
    /\ nc.pc = "options"
    /\ nc.i <= Len(nc.options)
    /\ client' = ApplyOption(nc.options[nc.i], client)
    /\ nc' = [nc EXCEPT !.i = @ + 1, !.applied = @ + 1]
    /\ UNCHANGED <<rets, env, caller, calls>>

\* "return client, nil": the frame of the call is gone
NewClientReturn ==
    /\ nc.pc = "options"
    /\ nc.i > Len(nc.options)
    /\ nc' = [nc EXCEPT !.pc = "returned", !.options = <<>>, !.i = 0,
                        !.retNil = FALSE, !.err = NoErr]
    /\ UNCHANGED <<rets, env, client, caller, calls>>

Constructed == nc.pc = "returned" /\ ~nc.retNil

SendSignal_WaitForTasks(signalType, payload) ==
    /\ Constructed
    /\ caller = "idle"
    /\ Len(calls) < MaxSends
    /\ \A i \in 1..Len(calls) : calls[i].task.pc \in {"none", "done"}
    /\ calls' = Append(calls, SendSignalSync(client, env, signalType, payload))
    /\ caller' = "inSendSignal"
    /\ UNCHANGED <<rets, env, client, nc>>

\* SendSignal called on the client: everything before "return nil"
SendSignal(signalType, payload) ==
    /\ Constructed
    /\ caller = "idle"
    /\ Len(calls) < MaxSends
    /\ calls' = Append(calls, SendSignalSync(client, env, signalType, payload))
    /\ caller' = "inSendSignal"
    /\ UNCHANGED <<rets, env, client, nc>>

\* SendSignal returns to its caller
SendSignalReturn ==
    /\ caller = "inSendSignal"
    /\ calls' = [calls EXCEPT ![Len(calls)].returned = TRUE]
    /\ caller' = "idle"
    /\ UNCHANGED <<rets, env, client, nc>>

\* what c.httpClient.Do can return: an error and no response; neither
\* (abnormal); a response; an error with the closed response of a refused
\* redirect
TransportOutcomes ==
    {[err |-> ErrTransport, response |-> NilResponse],
     [err |-> NoErr, response |-> NilResponse],
     [err |-> ErrTransport, response |-> [Response(302) EXCEPT !.closed = TRUE]]}
    \cup {[err |-> NoErr, response |-> Response(s)] : s \in Statuses}

TransportDo_MarshalLate(i, outcome) ==
    /\ calls[i].task.pc = "do"
    /\ calls' = [calls EXCEPT
           ![i].task.pc = "handle",
           ![i].task.attempts = @ + 1,
           ![i].task.wire =
               SendSignalBuild(client, env, calls[i].signalType,
                               calls[i].callerMap).request,
           ![i].task.err = outcome.err,
           ![i].task.response = outcome.response]
    /\ UNCHANGED <<rets, env, client, nc, caller>>

\* c.httpClient.Do(request) is handed the request and returns in the
\* goroutine of call i
TransportDo(i, outcome) ==
    /\ calls[i].task.pc = "do"
    /\ calls' = [calls EXCEPT ![i].task.pc = "handle",
                              ![i].task.attempts = @ + 1,
                              ![i].task.wire = calls[i].request,
                              ![i].task.err = outcome.err,
                              ![i].task.response = outcome.response]
    /\ UNCHANGED <<rets, env, client, nc, caller>>

\* deferred response.Body.Close()
CloseBody(t) == [t EXCEPT !.response.closed = TRUE, !.pc = "done"]

\* the goroutine from the return of Do to io.ReadAll or to its end
HandleResponse_NoNilCheck(c, t, body) ==
    LET t1 == IF t.err # NoErr THEN Printf(c.logger, t, ErrorLine(t.err)) ELSE t
    IN  IF t1.response.isNil
        THEN [Printf(c.logger, t1, WarningLine) EXCEPT !.pc = "done"]
        ELSE IF t1.response.status >= StatusThreshold /\ c.testMode /\ c.logger # NilLogger
        THEN [Printf(c.logger, Printf(c.logger, t1, StatusLine(t1.response.status)),
                     RequestLine(body)) EXCEPT !.pc = "read"]
        ELSE CloseBody(t1)

HandleResponse_Retry(c, t, body) ==
    IF t.err # NoErr /\ t.attempts < 2
    THEN [t EXCEPT !.pc = "do"]
    ELSE IF t.response.isNil THEN [t EXCEPT !.pc = "done"]
    ELSE IF t.response.status >= StatusThreshold /\ c.testMode /\ c.logger # NilLogger
    THEN [Printf(c.logger, Printf(c.logger, t, StatusLine(t.response.status)),
                 RequestLine(body)) EXCEPT !.pc = "read"]
    ELSE CloseBody(t)

HandleResponse_NoTestMode(c, t, body) ==
    LET t1 == IF t.err # NoErr /\ c.logger # NilLogger
              THEN Printf(c.logger, t, ErrorLine(t.err)) ELSE t
    IN  IF t1.response.isNil
        THEN [(IF c.logger # NilLogger THEN Printf(c.logger, t1, WarningLine) ELSE t1)
                 EXCEPT !.pc = "done"]
        ELSE IF t1.response.status >= StatusThreshold /\ c.logger # NilLogger
        THEN [Printf(c.logger, Printf(c.logger, t1, StatusLine(t1.response.status)),
                     RequestLine(body)) EXCEPT !.pc = "read"]
        ELSE CloseBody(t1)

HandleResponse(c, t, body) ==
    LET t1 == IF t.err # NoErr /\ c.logger # NilLogger
              THEN Printf(c.logger, t, ErrorLine(t.err)) ELSE t
    IN  IF t1.response.isNil
        THEN [(IF c.logger # NilLogger THEN Printf(c.logger, t1, WarningLine) ELSE t1)
                 EXCEPT !.pc = "done"]
        ELSE IF t1.response.status >= StatusThreshold /\ c.testMode /\ c.logger # NilLogger
        THEN [Printf(c.logger, Printf(c.logger, t1, StatusLine(t1.response.status)),
                     RequestLine(body)) EXCEPT !.pc = "read"]
        ELSE CloseBody(t1)

TaskHandle_AfterReturn(i) ==
    /\ calls[i].task.pc = "handle"
    /\ calls[i].returned
    /\ calls' = [calls EXCEPT ![i].task = HandleResponse(client, @, calls[i].body)]
    /\ UNCHANGED <<rets, env, client, nc, caller>>

TaskHandle(i) ==
    /\ calls[i].task.pc = "handle"
    /\ calls' = [calls EXCEPT ![i].task = HandleResponse(client, @, calls[i].body)]
    /\ UNCHANGED <<rets, env, client, nc, caller>>

\* io.ReadAll(response.Body) and the line it feeds, then the deferred Close
ReadBody(c, t, ok) ==
    IF ok /\ ~t.response.closed
    THEN CloseBody(Printf(c.logger, [t EXCEPT !.response.drained = TRUE],
                          ResponseLine(t.response.text)))
    ELSE CloseBody(t)

TaskReadBody(i, ok) ==
    /\ calls[i].task.pc = "read"
    /\ calls' = [calls EXCEPT ![i].task = ReadBody(client, @, ok)]
    /\ UNCHANGED <<rets, env, client, nc, caller>>

\* the construction of a client
NextNew(lists) ==
    \/ nc.pc = "start" /\ \E a \in AppIDs, os \in lists : NewClient(a, os)
    \/ OptionStep
    \/ NewClientReturn

\* the use of a constructed client
NextSend ==
    \/ \E st \in SignalTypes, p \in Payloads : SendSignal(st, p)
    \/ SendSignalReturn
    \/ \E i \in 1..Len(calls), o \in TransportOutcomes : TransportDo(i, o)
    \/ \E i \in 1..Len(calls) : TaskHandle(i)
    \/ \E i \in 1..Len(calls), ok \in BOOLEAN : TaskReadBody(i, ok)

Next == NextNew(Setups) \/ NextSend

\* construction and dispatch, the client configured by one of Setups
Spec == Init /\ [][Next]_vars

\* construction alone, under every option list up to MaxOptions
SpecNew == Init /\ [][NextNew(OptionLists)]_vars

(***************************************************************************)
(* The state machine of part_000: the exchange runs inside SendSignal.     *)
(***************************************************************************)
OptionLists000 == SeqsUpTo(Options000, MaxOptions)

\* NewClient of part_000
NewClient000(appID, options) ==
    /\ nc.pc = "start"
    /\ IF appID = ""
       THEN /\ nc' = [nc EXCEPT !.pc = "returned", !.appID = appID,
                                !.retNil = TRUE, !.err = ErrNoAppID]
            /\ UNCHANGED client
       ELSE /\ \E uuid \in FreshUUIDs : client' = DefaultClient000(appID, env, uuid)
            /\ nc' = [nc EXCEPT !.pc = "options", !.appID = appID,
                                !.options = options, !.i = 1]
    /\ UNCHANGED <<rets, env, caller, calls>>

Pending == "pending"

\* SendSignal of part_000 up to the call of c.httpClient.Do
SendSignal000(signalType, payload) ==
    /\ Constructed
    /\ caller = "idle"
    /\ Len(calls) < MaxSends
    /\ LET call == SendSignalSync(client, env, signalType, payload)
       IN  IF call.task.pc = "do"
           THEN /\ calls' = Append(calls, [call EXCEPT !.ret = Pending])
                /\ caller' = "inDo"
           ELSE /\ calls' = Append(calls, call)
                /\ caller' = "inSendSignal"
    /\ UNCHANGED <<rets, env, client, nc>>

DetailsLine(text) == Line("details: %s", text, <<>>)

\* part_000 from the return of Do to io.ReadAll or to the return statement;
\* log.Printf writes to the standard logger
AfterDo000(c, call) ==
    LET t == call.task
    IN  IF t.err # NoErr
        THEN [call EXCEPT !.ret = t.err, !.task.pc = "done"]
        ELSE IF t.response.isNil
        THEN [call EXCEPT !.task.panicked = TRUE, !.task.pc = "done"]
        ELSE IF c.testMode /\ t.response.status >= StatusThreshold
        THEN [call EXCEPT !.task.lines = <<StatusLine(t.response.status),
                                           RequestLine(call.body)>>,
                          !.task.pc = "read"]
        ELSE [call EXCEPT !.ret = NoErr, !.task = CloseBody(t)]

\* c.httpClient.Do(request) returns to SendSignal
TransportDo000(outcome) ==
    /\ caller = "inDo"
    /\ LET n == Len(calls)
           call == [calls[n] EXCEPT !.task.attempts = @ + 1,
                                    !.task.err = outcome.err,
                                    !.task.response = outcome.response]
           after == AfterDo000(client, call)
       IN  /\ calls' = [calls EXCEPT ![n] = after]
           /\ caller' = IF after.task.pc = "read" THEN "inReadAll"
                        ELSE IF after.task.panicked THEN "panicked"
                        ELSE "inSendSignal"
    /\ UNCHANGED <<rets, env, client, nc>>

\* io.ReadAll(response.Body), the details line, the deferred Close
ReadBody000(ok) ==
    /\ caller = "inReadAll"
    /\ LET n == Len(calls)
           t == calls[n].task
           t1 == IF ok THEN [t EXCEPT !.response.drained = TRUE,
                                      !.lines = Append(@, DetailsLine(t.response.text))]
                 ELSE t
       IN  calls' = [calls EXCEPT ![n].task = CloseBody(t1), ![n].ret = NoErr]
    /\ caller' = "inSendSignal"
    /\ UNCHANGED <<rets, env, client, nc>>

Next000 ==
    \/ nc.pc = "start" /\ \E a \in AppIDs, os \in OptionLists000 : NewClient000(a, os)
    \/ OptionStep
    \/ NewClientReturn
    \/ \E st \in SignalTypes, p \in Payloads : SendSignal000(st, p)
    \/ \E o \in TransportOutcomes : TransportDo000(o)
    \/ \E ok \in BOOLEAN : ReadBody000(ok)
    \/ SendSignalReturn

Spec000 == Init /\ [][Next000]_vars

(***************************************************************************)
(* A client in use: besides sending, its owner reads it through the        *)
(* accessors, applies options to it after construction and goes on         *)
(* writing to the payload maps it has handed over (specification SpecUse).  *)
(***************************************************************************)
UseSetups == {<<>>, <<Opt("WithLogger", "L")>>}
LateOptions ==
    { Opt("WithTestMode", ""), Opt("WithLogger", "L"),
      Opt("WithUserID", "ab"), Opt("WithHashSalt", "b"),
      Opt("WithSessionID", "sess"), Opt("WithEndpoint", TestEndpoint) }

\* the map the owner sends and goes on writing to
UsePayload == MapOf([k \in {"command"} |-> "create"])

InitUse ==
    /\ env = LinuxEnv
    /\ client = NoClient
    /\ nc = IdleNC
    /\ caller = "idle"
    /\ calls = <<>>
    /\ rets = <<>>

Returned(fn, val) == [fn |-> fn, ifas |-> <<>>, parts |-> <<>>, val |-> val]

UserID_Regenerate ==
    /\ Constructed
    /\ caller = "idle"
    /\ client' = WithUserID(generateUserId(env), client)
    /\ rets' = <<Returned("UserID", client'.userID)>>
    /\ UNCHANGED <<env, nc, caller, calls>>

\* c.UserID(); the owner keeps the value it read last
UserID ==
    /\ Constructed
    /\ caller = "idle"
    /\ rets' = <<Returned("UserID", client.userID)>>
    /\ UNCHANGED <<env, client, nc, caller, calls>>

\* c.UserIDHash()
UserIDHash ==
    /\ Constructed
    /\ caller = "idle"
    /\ rets' = <<Returned("UserIDHash", client.userIDHash)>>
    /\ UNCHANGED <<env, client, nc, caller, calls>>

\* an option function applied to the client NewClient returned: o(client)
LateOption(o) ==
    /\ Constructed
    /\ caller = "idle"
    /\ nc.late < MaxLate
    /\ client' = ApplyOption(o, client)
    /\ nc' = [nc EXCEPT !.late = @ + 1]
    /\ UNCHANGED <<rets, env, caller, calls>>

\* the caller writes to the map it passed to call i, after the call returned
MutatePayload(i, k, v) ==
    /\ calls[i].returned
    /\ ~calls[i].callerMap.isNil
    /\ calls[i].callerMap # MapSet(calls[i].callerMap, k, v)
    /\ calls' = [calls EXCEPT ![i].callerMap = MapSet(@, k, v)]
    /\ UNCHANGED <<rets, env, client, nc, caller>>

NextUse ==
    \/ NextNew(UseSetups)
    \/ Len(calls) < MaxUseSends /\ \E st \in SignalTypes : SendSignal(st, UsePayload)
    \/ SendSignalReturn
    \/ \E i \in 1..Len(calls), o \in TransportOutcomes : TransportDo(i, o)
    \/ \E i \in 1..Len(calls) : TaskHandle(i)
    \/ \E i \in 1..Len(calls), ok \in BOOLEAN : TaskReadBody(i, ok)
    \/ UserID
    \/ UserIDHash
    \/ \E o \in LateOptions : LateOption(o)
    \/ \E i \in 1..Len(calls) : MutatePayload(i, "command", "changed")

SpecUse == InitUse /\ [][NextUse]_vars

(***************************************************************************)
(* The goroutines under a fair scheduler (specification SpecLive): a       *)
(* goroutine that can take a step of its own is eventually scheduled;      *)
(* nothing is assumed of the transport, of the caller or of the other      *)
(* goroutines.                                                             *)
(***************************************************************************)
NextLive ==
    \/ NextNew(Setups)
    \/ \E st \in SignalTypes : SendSignal(st, UsePayload)
    \/ SendSignalReturn
    \/ \E i \in 1..Len(calls), o \in TransportOutcomes : TransportDo(i, o)
    \/ \E i \in 1..Len(calls) : TaskHandle(i)
    \/ \E i \in 1..Len(calls), ok \in BOOLEAN : TaskReadBody(i, ok)

TaskFairness ==
    \A i \in 1..MaxSends :
        /\ WF_vars(i \in 1..Len(calls) /\ TaskHandle(i))
        /\ WF_vars(i \in 1..Len(calls) /\ \E ok \in BOOLEAN : TaskReadBody(i, ok))

SpecLive == InitUse /\ [][NextLive]_vars /\ TaskFairness

(***************************************************************************)
(* Direct calls of generateUserId, as the package's test makes them, on    *)
(* every environment (specification SpecGen).                              *)
(***************************************************************************)
InitGen ==
    /\ env \in AllEnvs
    /\ client = NoClient
    /\ nc = IdleNC
    /\ caller = "idle"
    /\ calls = <<>>
    /\ rets = <<>>

\* gotId := generateUserId()
GenerateUserIdCall ==
    /\ Len(rets) < MaxCalls
    /\ rets' = Append(rets, [ fn |-> "generateUserId", ifas |-> env.ifas,
                              parts |-> generateUserIdParts(env),
                              val |-> generateUserId(env) ])
    /\ UNCHANGED <<env, client, nc, caller, calls>>

\* net.Interfaces enumerates the same interfaces in another order: two
\* neighbours change places
ReorderInterfaces(k) ==
    /\ ~env.ifErr
    /\ k \in 1..(Len(env.ifas) - 1)
    /\ env.ifas[k] # env.ifas[k + 1]
    /\ env' = [env EXCEPT !.ifas = [@ EXCEPT ![k] = env.ifas[k + 1],
                                              ![k + 1] = env.ifas[k]]]
    /\ UNCHANGED <<client, nc, caller, calls, rets>>

NextGen ==
    \/ GenerateUserIdCall
    \/ \E k \in 1..MaxIfas : ReorderInterfaces(k)

SpecGen == InitGen /\ [][NextGen]_vars

(***************************************************************************)
(* Direct calls of hashUserId, as the package's tests make them            *)
(* (specification SpecHash).                                               *)
(***************************************************************************)
\* "somebody@example.com" and "MySalt" in ASCII
Somebody == <<115, 111, 109, 101, 98, 111, 100, 121, 64, 101, 120, 97, 109, 112, 108, 101, 46, 99, 111, 109>>
MySalt == <<77, 121, 83, 97, 108, 116>>
ExpectedWithSalt == "c05dc5334d83cca7382bca040f2f6e9de56d57d22814cfc4c39b5a55dbc9ef16"
ExpectedWithoutSalt == "787d5b7c06ca0a21c96436cc7c8117e6fe046d0fd7dedcae8c93bfc14b8e5df7"

\* the strings over "a" and "b" up to MaxHashLen bytes
ByteStrings == UNION {[1..n -> {97, 98}] : n \in 0..MaxHashLen}
HashIDs == ByteStrings \cup {Somebody}
HashSalts == ByteStrings \cup {MySalt}

\* the test's userID and salt, before it calls hashUserId
InitHash ==
    /\ env = LinuxEnv
    /\ client = NoClient
    /\ nc = IdleNC
    /\ caller = "idle"
    /\ calls = <<>>
    /\ \E id \in HashIDs, salt \in HashSalts :
           rets = <<[fn |-> "hashUserId", id |-> id, salt |-> salt,
                     done |-> FALSE, val |-> ""]>>

\* hash := hashUserId(userID, salt)
HashUserIdCall ==
    /\ ~rets[1].done
    /\ rets' = <<[rets[1] EXCEPT !.done = TRUE,
                                 !.val = hashUserIdBytes(rets[1].id, rets[1].salt)]>>
    /\ UNCHANGED <<env, client, nc, caller, calls>>

NextHash == HashUserIdCall

SpecHash == InitHash /\ [][NextHash]_vars

(***************************************************************************)
(* Properties.                                                             *)
(***************************************************************************)
CallIds == 1..Len(calls)

\* the envelope array the exchange of call i carries
Sent(i) == calls[i].request.body

\* the call built a request (signal type given, serialization and request
\* construction succeeded)
Built(i) == ~calls[i].request.isNil

\* the lines of the sink written by the exchange of call i
Lines(i) == calls[i].task.lines
HasLine(i, line) == \E k \in 1..Len(Lines(i)) : Lines(i)[k] = line

\* C1: once NewClient has applied an option or has returned a client, the
\* client's userIDHash is hashUserId(userID, hashSalt) of its current userID
\* and hashSalt; in particular the lists <<WithUserID(u), WithHashSalt(s)>>
\* and <<WithHashSalt(s), WithUserID(u)>> both end with hashUserId(u, s).
C1_HashFollowsUserAndSalt ==
    /\ (~client.isNil /\ (Constructed \/ nc.applied > 0))
         => client.userIDHash = hashUserId(client.userID, client.hashSalt)
    /\ \A u \in UserIDs, s \in Salts :
         (/\ nc.pc = "options"
          /\ nc.i > Len(nc.options)
          /\ nc.options \in {<<Opt("WithUserID", u), Opt("WithHashSalt", s)>>,
                             <<Opt("WithHashSalt", s), Opt("WithUserID", u)>>})
           => client.userIDHash = hashUserId(u, s)

\* C1, the case: a client returned by NewClient whose option list touched
\* neither the user ID nor the salt
C1_DefaultClientReturned ==
    /\ Constructed
    /\ client.userID = generateUserId(env)
    /\ client.hashSalt = ""

\* C2: a returned SendSignal call gave nil or one of the local errors, and nil
\* whenever the request was constructed, whatever the transport did.
C2_NoTransportOutcomeReturned ==
    \A i \in CallIds :
        calls[i].returned =>
            /\ calls[i].ret \in {NoErr, ErrNoSignalType, ErrMarshal, ErrNewRequest}
            /\ Built(i) => calls[i].ret = NoErr

\* C2, the case: a call has returned after its transport failed
C2_ReturnedAfterTransportError ==
    \E i \in CallIds : calls[i].returned /\ calls[i].task.err = ErrTransport

\* C3: while the exchange of a call is pending in the transport, the call has
\* returned or its return step is enabled: the return never waits for it.
C3_ReturnNeverWaits ==
    \A i \in CallIds :
        (Built(i) /\ calls[i].task.pc = "do" /\ ~calls[i].returned)
            => ENABLED SendSignalReturn

\* C3, the case: SendSignal has returned nil and its exchange is still pending
\* (reachable under Spec, never under Spec000)
C3_ReturnedWhilePending ==
    \E i \in CallIds :
        calls[i].returned /\ calls[i].ret = NoErr /\ calls[i].task.pc = "do"

\* C4: NewClient returns a client and no error for a non-empty appID, whatever
\* the options; for the empty appID it returns ErrNoAppID and no client, and no
\* option is applied; a client's appID is the argument at every moment.
C4_NewClientResult ==
    /\ nc.pc = "returned" =>
         IF nc.appID = ""
         THEN nc.retNil /\ nc.err = ErrNoAppID /\ client = NoClient /\ nc.applied = 0
         ELSE ~nc.retNil /\ nc.err = NoErr /\ ~client.isNil
    /\ ~client.isNil => client.appID = nc.appID /\ nc.appID # ""
    /\ nc.pc = "options" => nc.appID # "" /\ ~client.isNil

\* C4, the case: NewClient returned a client after applying a list of options
C4_ClientReturnedAfterOptions ==
    Constructed /\ nc.applied >= 2 /\ nc.err = NoErr

\* C5: a SendSignal call with the empty signal type returns ErrNoSignalType,
\* builds no request and spawns no goroutine (nothing reaches the transport).
C5_EmptyTypeNoNetwork ==
    \A i \in CallIds :
        calls[i].signalType = "" =>
            /\ calls[i].ret = ErrNoSignalType
            /\ calls[i].request = NoRequest
            /\ calls[i].body = <<>>
            /\ calls[i].task = NoTask

\* C5, the case: a call with the empty signal type on a payload has returned
C5_EmptyTypeReturned ==
    \E i \in CallIds :
        calls[i].signalType = "" /\ calls[i].returned /\ ~calls[i].payload.isNil

\* C6: the payload a successful call transmits is a JSON object (never null)
\* whose keys are the caller's keys and the three standard keys, with the
\* caller's value at every other key and the injected value at the standard
\* keys; for a nil payload it has exactly the three standard keys.
C6_TransmittedPayload ==
    \A i \in CallIds :
        (calls[i].ret = NoErr /\ Built(i)) =>
            LET sent == Sent(i)[1].payload
                given == calls[i].payload.kv
            IN  /\ ~sent.null
                /\ DOMAIN sent.members = (DOMAIN given) \cup StandardKeys
                /\ \A k \in (DOMAIN given) \ StandardKeys :
                       sent.members[k] = JSONString(given[k])
                /\ sent.members[KeyOS] = JSONString(env.goos)
                /\ sent.members[KeyArch] = JSONString(env.goarch)
                /\ sent.members[KeySDK] = JSONString(version)
                /\ calls[i].payload.isNil => DOMAIN sent.members = StandardKeys

\* C6, the case: a payload that sets a standard key itself has been transmitted
C6_CollidingPayloadSent ==
    \E i \in CallIds :
        /\ calls[i].ret = NoErr
        /\ KeyOS \in DOMAIN calls[i].payload.kv
        /\ calls[i].task.attempts = 1

\* C7: the envelope of a call carries the client's appID, sessionID and
\* testMode, the given signal type, and as clientUser the client's userIDHash,
\* which is hashUserId(userID, hashSalt); the unhashed userID is in no field;
\* two sends on the client carry the same appID, sessionID and clientUser.
C7_EnvelopeIdentity ==
    /\ \A i \in CallIds :
         Sent(i) # <<>> =>
            LET sig == Sent(i)[1]
            IN  /\ sig.appID = JSONString(client.appID)
                /\ sig.sessionID = JSONString(client.sessionID)
                /\ sig.isTestMode = JSONBool(client.testMode)
                /\ sig.type = JSONString(calls[i].signalType)
                /\ sig.clientUser = JSONString(client.userIDHash)
                /\ sig.clientUser =
                       JSONString(hashUserId(client.userID, client.hashSalt))
                /\ JSONString(client.userID) \notin
                       {sig.appID, sig.clientUser, sig.sessionID, sig.type}
    /\ \A i, j \in CallIds :
         (Sent(i) # <<>> /\ Sent(j) # <<>>) =>
            /\ Sent(i)[1].appID = Sent(j)[1].appID
            /\ Sent(i)[1].sessionID = Sent(j)[1].sessionID
            /\ Sent(i)[1].clientUser = Sent(j)[1].clientUser

\* C7, the case: two envelopes have been built on one client
C7_TwoEnvelopes ==
    \E i, j \in CallIds : i # j /\ Sent(i) # <<>> /\ Sent(j) # <<>>

\* C8: a call that returns nil has spawned one goroutine; that goroutine calls
\* the transport once, with a POST to the client's endpoint whose body is an
\* array of one envelope; a call that returns an error has spawned none. So
\* the calls that returned nil and the requests (made or pending) are as many.
C8_OneRequestPerSend ==
    /\ \A i \in CallIds :
         IF calls[i].ret = NoErr
         THEN /\ calls[i].task.pc # "none"
              /\ calls[i].task.attempts = (IF calls[i].task.pc = "do" THEN 0 ELSE 1)
              /\ calls[i].request.method = "POST"
              /\ calls[i].request.url = client.endpoint
              /\ calls[i].request.contentType = "application/json; charset=utf-8"
              /\ Len(Sent(i)) = 1
              /\ Sent(i) = calls[i].body
         ELSE calls[i].task.pc = "none" /\ calls[i].task.attempts = 0
    /\ Cardinality({i \in CallIds : calls[i].ret = NoErr})
         = Cardinality({i \in CallIds : calls[i].task.pc = "do"
                                         \/ calls[i].task.attempts = 1})

\* C8, the case: two calls returned nil and both goroutines have ended
C8_TwoSendsDone ==
    /\ Len(calls) >= 2
    /\ \A i \in 1..2 :
         calls[i].returned /\ calls[i].ret = NoErr /\ calls[i].task.pc = "done"
    /\ calls[1].task.err # NoErr

\* the condition of the diagnostic lines of a response
Diagnosed(i) ==
    /\ calls[i].task.response.status >= StatusThreshold
    /\ client.testMode
    /\ client.logger # NilLogger

\* the goroutine of call i is past the handling of a response it received
Handled(i) ==
    calls[i].task.pc \in {"read", "done"} /\ ~calls[i].task.response.isNil

\* C9 as stated: the lines are written exactly when status >= 400, test mode
\* is on and a sink is set, and then the sink has the status, the request body
\* and the response body; otherwise the response leaves nothing in the sink.
C9_DiagnosticsAsStated ==
    \A i \in CallIds :
        (Handled(i) /\ calls[i].task.pc = "done") =>
            /\ Diagnosed(i) <=> HasLine(i, StatusLine(calls[i].task.response.status))
            /\ Diagnosed(i) =>
                 /\ HasLine(i, RequestLine(calls[i].body))
                 /\ HasLine(i, ResponseLine(calls[i].task.response.text))
            /\ (~Diagnosed(i) /\ calls[i].task.err = NoErr) => Lines(i) = <<>>

\* C9, amended: as C9, but the response-body line is written exactly when
\* io.ReadAll returned the body without error; a failed read writes no line.
\* (A response that comes with a transport error, a refused redirect, leaves
\* the error line of C10 and none of these lines.)
C9_Diagnostics ==
    \A i \in CallIds :
        Handled(i) =>
            LET t == calls[i].task
                responseLine == HasLine(i, ResponseLine(t.response.text))
            IN  /\ Diagnosed(i) <=> HasLine(i, StatusLine(t.response.status))
                /\ Diagnosed(i) <=> HasLine(i, RequestLine(calls[i].body))
                /\ responseLine <=> (Diagnosed(i) /\ t.response.drained)
                /\ (t.pc = "done" /\ Diagnosed(i) /\ ~t.response.drained)
                       => Lines(i) = <<StatusLine(t.response.status),
                                       RequestLine(calls[i].body)>>
                /\ (t.pc = "done" /\ Diagnosed(i) /\ t.response.drained)
                       => Lines(i) = <<StatusLine(t.response.status),
                                       RequestLine(calls[i].body),
                                       ResponseLine(t.response.text)>>
                /\ (~Diagnosed(i) /\ t.err = NoErr) => Lines(i) = <<>>

\* C9, the case: a response with status >= 400 under test mode and a sink,
\* its body read, the goroutine ended
C9_DiagnosedResponse ==
    \E i \in CallIds :
        /\ calls[i].task.pc = "done"
        /\ Diagnosed(i)
        /\ calls[i].task.response.drained
        /\ Len(Lines(i)) = 3

\* C10: when the transport returned an error, the goroutine writes the error
\* line if a sink is set, test mode or not, and nothing if none is set; it
\* does not fault, it ends, and the call's result stays nil.
C10_TransportError ==
    \A i \in CallIds :
        LET t == calls[i].task
        IN  (t.err # NoErr /\ t.pc # "handle") =>
                /\ client.logger # NilLogger => HasLine(i, ErrorLine(t.err))
                /\ client.logger = NilLogger => Lines(i) = <<>>
                /\ ~t.panicked
                /\ t.pc = "done"
                /\ calls[i].ret = NoErr

\* C10, the case: the transport failed with no sink set and the goroutine ended
C10_ErrorWithoutSink ==
    \E i \in CallIds :
        /\ calls[i].task.err = ErrTransport
        /\ calls[i].task.pc = "done"
        /\ client.logger = NilLogger
        /\ calls[i].returned

\* C11: when a goroutine that received a response has ended, the body of
\* that response has been read to its end and closed, whatever the status,
\* the test mode and the sink.
C11_BodyDrainedAndClosed ==
    \A i \in CallIds :
        (calls[i].task.pc = "done" /\ ~calls[i].task.response.isNil) =>
            calls[i].task.response.drained /\ calls[i].task.response.closed

\* C11, the case: a goroutine has ended after a response with status < 400
C11_EndedAfterSuccess ==
    \E i \in CallIds :
        /\ calls[i].task.pc = "done"
        /\ calls[i].task.err = NoErr
        /\ ~calls[i].task.response.isNil
        /\ calls[i].task.response.status < StatusThreshold

\* the payload holds a value json.Marshal rejects
Rejected(payload) == \E k \in DOMAIN payload.kv : payload.kv[k] = Unserializable

\* C12: a call whose envelope cannot be serialized returns the serialization
\* error, a call whose request cannot be built (malformed endpoint) returns
\* the construction error; neither spawns a goroutine nor issues a request.
C12_LocalErrorsNoNetwork ==
    \A i \in CallIds :
        calls[i].signalType # "" =>
            /\ Rejected(calls[i].payload) => calls[i].ret = ErrMarshal
            /\ (~Rejected(calls[i].payload) /\ client.endpoint = MalformedEndpoint)
                   => calls[i].ret = ErrNewRequest
            /\ calls[i].ret \in {ErrMarshal, ErrNewRequest} =>
                   /\ calls[i].task = NoTask
                   /\ calls[i].request = NoRequest

\* C12, the case: one call failed on serialization and one on the request
\* construction, and both have returned
C12_BothLocalErrorsReturned ==
    \E i, j \in CallIds :
        /\ calls[i].returned /\ calls[i].ret = ErrMarshal
        /\ calls[j].returned /\ calls[j].ret = ErrNewRequest

RECURSIVE LastArg(_, _, _)
\* the argument of the last option of the given kind in the list, or the default
LastArg(os, kind, default) ==
    IF os = <<>> THEN default
    ELSE IF os[Len(os)].kind = kind THEN os[Len(os)].arg
    ELSE LastArg(SubSeq(os, 1, Len(os) - 1), kind, default)

\* C13: while NewClient applies its options, and when it has applied them all,
\* every field of the client holds the argument of the last option applied so
\* far that sets it, or its default if none did; userIDHash is the hash of
\* that user ID and salt; nothing else differs from the defaults.
C13_LeftToRightLastWins ==
    nc.pc = "options" =>
        LET done == SubSeq(nc.options, 1, nc.i - 1)
            userID == LastArg(done, "WithUserID", generateUserId(env))
            salt == LastArg(done, "WithHashSalt", "")
        IN  /\ client.endpoint = LastArg(done, "WithEndpoint", endpoint)
            /\ client.logger = LastArg(done, "WithLogger", NilLogger)
            /\ client.hashSalt = salt
            /\ client.userID = userID
            /\ client.userIDHash = hashUserId(userID, salt)
            /\ client.sessionID \in
                   {LastArg(done, "WithSessionID", uuid) : uuid \in FreshUUIDs}
            /\ client.testMode = (\E k \in 1..Len(done) : done[k].kind = "WithTestMode")
            /\ client.appID = nc.appID
            /\ ~client.isNil

\* C13, the case: a list with two options for one field has been applied
C13_OverriddenOptionApplied ==
    /\ nc.pc = "options"
    /\ nc.options = <<Opt("WithUserID", "ab"), Opt("WithUserID", "a")>>
    /\ nc.i > Len(nc.options)

\* the call made a request that the transport has not answered
InFlight(i) == calls[i].task.pc = "do"

\* C14: a SendSignal call is possible whenever the caller is not inside one,
\* however many goroutines are in flight, and with a valid signal type,
\* payload and endpoint it returns nil and adds a goroutine: the in-flight
\* goroutines are never a reason to block or reject (the number of calls is
\* bounded by MaxSends in the model only).
C14_NoBackpressure ==
    /\ (Constructed /\ caller = "idle" /\ Len(calls) < MaxSends)
           => ENABLED SendSignal("sig", NilMap)
    /\ \A i \in CallIds :
           (/\ calls[i].signalType # ""
            /\ ~Rejected(calls[i].payload)
            /\ client.endpoint # MalformedEndpoint)
               => calls[i].ret = NoErr /\ calls[i].task.pc # "none"

\* C14, the case: every call the model allows has returned nil and all their
\* goroutines are in flight at once
C14_AllInFlight ==
    /\ Len(calls) = MaxSends
    /\ \A i \in CallIds : calls[i].returned /\ calls[i].ret = NoErr /\ InFlight(i)

\* C17: the "no response" warning is written only for a nil response without
\* error; a transport error with a sink set leaves the error line alone.
C17_WarningOnlyWithoutError ==
    \A i \in CallIds :
        calls[i].task.pc = "done" =>
            /\ HasLine(i, WarningLine) =>
                   calls[i].task.response.isNil /\ calls[i].task.err = NoErr
            /\ (calls[i].task.err # NoErr /\ calls[i].task.response.isNil
                  /\ client.logger # NilLogger)
                   => Lines(i) = <<ErrorLine(calls[i].task.err)>>

\* C17, the case: the transport failed without a response and a sink is set
C17_ErrorWithSink ==
    \E i \in CallIds :
        /\ calls[i].task.pc = "done"
        /\ calls[i].task.err # NoErr
        /\ calls[i].task.response.isNil
        /\ client.logger # NilLogger

\* C15: every direct call of generateUserId returns a non-empty string, in
\* every environment (all lookups failing included), and all calls on one
\* machine return the same string although the interfaces were enumerated in
\* different orders.
C15_GeneratedIdStable ==
    \A j \in 1..Len(rets) :
        /\ rets[j].val # ""
        /\ Len(rets[j].val) > 0
        /\ \A k \in 1..Len(rets) : rets[k].val = rets[j].val

\* C15, the case: two calls saw two different hardware addresses in
\* different orders
C15_CalledInTwoOrders ==
    \E j, k \in 1..Len(rets) :
        /\ rets[j].ifas # rets[k].ifas
        /\ {"02:aa", "02:bb"} \subseteq {rets[j].ifas[n] : n \in 1..Len(rets[j].ifas)}

\* the first non-empty of the two strings
FirstNonEmpty(a, b) == IF a # "" THEN a ELSE b

\* C18: the identifier always has the same seven segments in the same places:
\* OS, architecture, host name, addresses, uid, gid, user name; a failed
\* lookup leaves its segment empty, and the user name is the first non-empty
\* of USER and USERNAME.
C18_FixedSegments ==
    \A j \in 1..Len(rets) :
        rets[j].parts =
            << env.goos, env.goarch,
               IF env.hostnameErr THEN "" ELSE env.hostname,
               IF env.ifErr THEN ""
               ELSE Join(SortStrings(NonEmptyAddrs(env.ifas)), " "),
               Itoa(env.uid), Itoa(env.gid),
               FirstNonEmpty(env.USER, env.USERNAME) >>

\* C18, the case: generateUserId was called where os.Hostname fails
C18_CalledWithoutHostname ==
    \E j \in 1..Len(rets) : env.hostnameErr /\ rets[j].parts # <<>>

\* C19: once NewClient has returned a client, no step other than an option
\* function applied to it changes any of its fields: not SendSignal (with or
\* without error), not its goroutine, not the accessors; and each accessor
\* returns the field it is named after.
C19_OnlyOptionsChangeClient ==
    [][ /\ (Constructed /\ nc'.late = nc.late) => client' = client
        /\ rets' # rets =>
               rets'[1].val = IF rets'[1].fn = "UserID" THEN client.userID
                              ELSE client.userIDHash ]_vars

\* C19, the case: an accessor has been called and a goroutine has ended on a
\* client to which no option was applied after construction
C19_UsedUntouched ==
    /\ Constructed
    /\ nc.late = 0
    /\ rets # <<>>
    /\ \E i \in CallIds : calls[i].returned /\ calls[i].task.pc = "done"

\* C20: the body and the destination of a request are those SendSignal
\* computed from the client and the payload at the time of the call; no later
\* step changes them, the transport is handed that request, the logged body
\* is that body, and the goroutine decides what to log from the sink and the
\* test mode the client has when it runs.
C20_RequestFixedAtCall ==
    [][ /\ \A i \in 1..Len(calls) :
               /\ calls'[i].request = calls[i].request
               /\ calls'[i].body = calls[i].body
        /\ Len(calls') > Len(calls) =>
               LET n == calls'[Len(calls')]
               IN  n.ret = NoErr =>
                       /\ n.body = Marshal(<<BuildSignal(client, n.signalType,
                                       InjectStandardFields(n.payload, env))>>).bytes
                       /\ n.request.body = n.body
                       /\ n.request.url = client.endpoint
        /\ \A i \in 1..Len(calls) :
               /\ (calls[i].task.pc = "do" /\ calls'[i].task.pc = "handle")
                      => calls'[i].task.wire = calls[i].request
               /\ \A k \in 1..Len(calls'[i].task.lines) :
                      calls'[i].task.lines[k].fmt = RequestLine(<<>>).fmt
                          => calls'[i].task.lines[k] = RequestLine(calls[i].body)
               /\ (/\ calls[i].task.pc = "handle"
                   /\ calls'[i].task.pc # "handle"
                   /\ ~calls[i].task.response.isNil)
                      => ((calls'[i].task.lines # calls[i].task.lines)
                            <=> (client.logger # NilLogger
                                 /\ (\/ calls[i].task.err # NoErr
                                     \/ /\ calls[i].task.response.status >= StatusThreshold
                                        /\ client.testMode)))
      ]_vars

\* C20, the case: a request went out after the client was given another
\* user ID or endpoint and the caller's map another value, all after the call
C20_SentAfterChanges ==
    \E i \in CallIds :
        /\ calls[i].task.attempts > 0
        /\ calls[i].callerMap # InjectStandardFields(calls[i].payload, env)
        /\ nc.late > 0
        /\ \/ calls[i].request.url # client.endpoint
           \/ calls[i].body[1].clientUser # JSONString(client.userIDHash)
           \/ calls[i].body[1].sessionID # JSONString(client.sessionID)

\* C16: what hashUserId returns is the hexadecimal SHA-256 digest of the
\* user ID followed directly by the salt: 64 digits, a function of the
\* concatenation alone, and for the two inputs of the tests the digests the
\* tests expect.
C16_HashIsHexSha256 ==
    \A k \in 1..Len(rets) :
        rets[k].done =>
            /\ rets[k].val = HexWords(Sha256(rets[k].id \o rets[k].salt))
            /\ Len(rets[k].val) = 64
            /\ (rets[k].id = Somebody /\ rets[k].salt = MySalt)
                   => rets[k].val = ExpectedWithSalt
            /\ (rets[k].id = Somebody /\ rets[k].salt = <<>>)
                   => rets[k].val = ExpectedWithoutSalt

\* C16, the case: the salted hash of the test has been computed
C16_SaltedHashComputed ==
    \E k \in 1..Len(rets) :
        rets[k].done /\ rets[k].id = Somebody /\ rets[k].salt = MySalt

\* C21: after a call with a non-nil payload and a non-empty signal type the
\* caller's own map holds the three standard keys with the injected values
\* and its other entries as they were, also when the call returned a
\* serialization or request construction error; after a call that returned
\* ErrNoSignalType the caller's map is as it was given.
C21_InjectedInPlace ==
    \A i \in CallIds :
        ~calls[i].payload.isNil =>
            LET given == calls[i].payload.kv
                own == calls[i].callerMap
            IN  /\ calls[i].signalType # "" =>
                       /\ ~own.isNil
                       /\ DOMAIN own.kv = (DOMAIN given) \cup StandardKeys
                       /\ own.kv[KeyOS] = env.goos
                       /\ own.kv[KeyArch] = env.goarch
                       /\ own.kv[KeySDK] = version
                       /\ \A k \in (DOMAIN given) \ StandardKeys : own.kv[k] = given[k]
                /\ calls[i].signalType = "" =>
                       /\ calls[i].ret = ErrNoSignalType
                       /\ own = calls[i].payload

\* C21, the case: calls with a non-nil map have returned a serialization
\* error, a request construction error and ErrNoSignalType
C21_FailedCallsWithMaps ==
    \E i, j \in CallIds :
        /\ ~calls[i].payload.isNil /\ ~calls[j].payload.isNil
        /\ calls[i].returned /\ calls[i].ret \in {ErrMarshal, ErrNewRequest}
        /\ calls[j].returned /\ calls[j].ret = ErrNoSignalType

\* the goroutine of call i exists and is at one of the positions
TaskAt(i, pcs) == IF i \in CallIds THEN calls[i].task.pc \in pcs ELSE FALSE

\* C22: a goroutine whose transport call has returned ends, whatever the
\* outcome, the test mode and the sink, without the caller, the transport or
\* another goroutine taking a step; it calls the transport once and, once
\* ended, stays ended.
C22_TaskTerminates ==
    /\ \A i \in 1..MaxSends : TaskAt(i, {"handle", "read"}) ~> TaskAt(i, {"done"})
    /\ [](\A i \in CallIds :
              /\ calls[i].task.attempts <= 1
              /\ ~calls[i].task.panicked)

\* C22, the case: a goroutine has ended after reading the body of a response
\* with status >= 400, before SendSignal returned to its caller
C22_EndedBeforeReturn ==
    \E i \in CallIds :
        /\ calls[i].task.pc = "done"
        /\ calls[i].task.response.drained
        /\ ~calls[i].returned

====
